---- MODULE Spec2Model ----
(***************************************************************************)
(* A model of the DIN_SQL controller of the text-to-SQL workshop library   *)
(* (src/libs/din_sql/din_sql_lib.py): the classification-driven routing of *)
(* get_sql with its mandatory clean pass, and the execute / repair /       *)
(* re-execute cycle of query.                                              *)
(*                                                                         *)
(* Text is modelled as a sequence of tokens.  The token "T" is the plain   *)
(* fence ``` and "q" the word sql, so the opening fence ```sql is <<T,q>>  *)
(* and the closing fence ``` is a prefix of it, as in the source.  "n" is  *)
(* a newline, "s" a space and "x" any other piece of text.  Python's None  *)
(* is the one-token text <<"None">>, which no generation can produce.      *)
(***************************************************************************)
EXTENDS Integers, Sequences, FiniteSets, TLC

VARIABLES
    pc,             \* position of the running call
    model_id,       \* self.model_id, by family
    sql_dialect,    \* self.sql_dialect
    question,       \* get_sql argument
    db_name,        \* get_sql argument
    schema_links,   \* get_sql argument
    classification, \* get_sql argument
    SQL,            \* get_sql local SQL
    caught,         \* exceptions swallowed by get_sql's except clauses, in order
    calls,          \* Completion Client calls made, in order
    llm_out,        \* text returned by the latest Completion Client call
    sql_string,     \* query argument
    db_error,       \* query local db_error
    revised_sql,    \* query local revised_sql
    executed,       \* statements handed to db_connection.execute, in order
    ret,            \* value returned to the caller
    exc,            \* exception raised to the caller
    response,       \* extract_tag argument
    name,           \* extract_tag argument
    greedy,         \* extract_tag argument
    tag_ret,        \* the pair extract_tag returns
    inspector,      \* what sa.inspect(self.db_connection) reports: the catalog
    find_db,        \* db_name argument of the find_ functions
    find_ret,       \* the texts the three find_ functions return
    token_summary,  \* self.token_summary
    reported,       \* token costs the backend reported since the last reset
    fence_text,     \* a model output handed to the three fence slices
    fence_ret,      \* what the three fence slices make of it
    db_connection,  \* self.db_connection
    db_params,      \* self.db_un, db_pwd, db_host, db_port, db_name, db_engine
    established     \* connect calls made so far

coreVars == <<pc, model_id, sql_dialect, question, db_name, schema_links,
              classification, SQL, caught, calls, llm_out, sql_string, db_error,
              revised_sql, executed, ret, exc>>
tagVars == <<response, name, greedy, tag_ret>>
findVars == <<inspector, find_db, find_ret>>
tokenVars == <<token_summary, reported>>
fenceVars == <<fence_text, fence_ret>>
connVars == <<db_connection, db_params, established>>

vars == <<coreVars, tagVars, findVars, tokenVars, fenceVars, connVars>>

getSqlVars == <<question, db_name, schema_links, classification, SQL, caught>>
queryVars == <<sql_string, db_error, revised_sql, executed>>

----------------------------------------------------------------------------
(* Bounds of the model. *)

\* longest text the first-pass generation of get_sql returns
MaxGen == 2
\* longest text the clean-pass and the repair generation return
MaxOut == 4

----------------------------------------------------------------------------
(* Text. *)

None == <<"None">>
NoExc == <<>>

RECURSIVE Find(_, _, _)
\* str.find from position i (1-based); 0 when sub does not occur
Find(s, sub, i) ==
    IF i + Len(sub) - 1 > Len(s) THEN 0
    ELSE IF SubSeq(s, i, i + Len(sub) - 1) = sub THEN i
    ELSE Find(s, sub, i + 1)

RECURSIVE Split(_, _)
\* str.split(sep): the pieces between the non-overlapping occurrences of sep
Split(s, sep) ==
    LET i == Find(s, sep, 1)
    IN  IF i = 0 THEN <<s>>
        ELSE <<SubSeq(s, 1, i - 1)>> \o Split(SubSeq(s, i + Len(sep), Len(s)), sep)

\* str.replace("\n", " ")
ReplaceNewlines(s) == [i \in 1..Len(s) |-> IF s[i] = "n" THEN "s" ELSE s[i]]

IsSpace(c) == c \in {"n", "s"}

RECURSIVE LStrip(_)
LStrip(s) == IF s # <<>> /\ IsSpace(Head(s)) THEN LStrip(Tail(s)) ELSE s

RECURSIVE RStrip(_)
RStrip(s) ==
    IF s # <<>> /\ IsSpace(s[Len(s)]) THEN RStrip(SubSeq(s, 1, Len(s) - 1)) ELSE s

\* str.strip()
Strip(s) == RStrip(LStrip(s))

Last(parts) == parts[Len(parts)]

RECURSIVE SeqsUpTo(_, _)
\* every text over alphabet A of at most n tokens
SeqsUpTo(A, n) ==
    IF n = 0 THEN {<<>>}
    ELSE LET shorter == SeqsUpTo(A, n - 1)
         IN  shorter \cup {Append(t, a) : t \in {u \in shorter : Len(u) = n - 1}, a \in A}

StartsWith(s, prefix) == Len(s) >= Len(prefix) /\ SubSeq(s, 1, Len(prefix)) = prefix

----------------------------------------------------------------------------
(* Program constants. *)

sql_tag_start == <<"T", "q">>
sql_tag_end == <<"T">>
example_tag_start == <<"<example>">>
example_tag_end == <<"</example>">>
instructions_tag_start == <<"<instructions>">>
instructions_tag_end == <<"</instructions>">>
SELECT == <<"SELECT">>
EASY == <<"EASY">>
NON_NESTED == <<"NON-NESTED">>
NESTED == <<"NESTED">>
\* the text 'questions = [' is one token, the double quote "dq" and the bracket "]"
SubQuestionFind == <<"questions = [">>
SubQuestionOpen == <<"questions = [", "dq">>
SubQuestionClose == <<"dq", "]">>

\* a substitution field a prompt variant does not take
Unused == <<"-">>

----------------------------------------------------------------------------
(* Inputs. *)

Alphabet == {"T", "q", "x", "n"}
\* what the backend can answer: a text, or None after a ClientError
Texts == SeqsUpTo(Alphabet, MaxOut)
LLMOutcomes == Texts \cup {None}
GenTexts == SeqsUpTo(Alphabet, MaxGen)
GenOutcomes == GenTexts \cup {None}

\* the question, database name and schema links of a get_sql call
Requests ==
    { [question |-> <<"q1">>, db_name |-> <<"db1">>, schema_links |-> <<"links1">>],
      [question |-> <<"q2">>, db_name |-> <<"db2">>, schema_links |-> <<"links2">>] }
\* the statements handed to query, and the messages of the driver's errors
Statements == {<<"x">>, <<"x", "s", "x">>}
ErrorMessages == {<<"error1">>, <<"error2">>}
Dialects == {None, <<"presto">>}
ModelIds == {<<"anthropic", ".claude">>, <<"amazon", ".titan">>}
Classifications ==
    { EASY, NON_NESTED, NESTED, <<"OTHER">>, <<>>,
      NESTED \o <<"s">> \o SubQuestionOpen \o <<"sub1">> \o SubQuestionClose,
      NESTED \o <<"s">> \o SubQuestionFind \o <<"sub1", "]">>,
      SubQuestionOpen \o <<"sub1">> \o SubQuestionClose }

----------------------------------------------------------------------------
(* Schema Introspector, as get_sql sees it: the text each listing returns  *)
(* for a database when the metadata query succeeds.                        *)

find_fields(db) == <<"fields of">> \o db
find_foreign_keys(db) == <<"foreign keys of">> \o db
find_primary_keys(db) == <<"primary keys of">> \o db

----------------------------------------------------------------------------
(* Prompt Builder: a rendered prompt is the variant and its substitutions. *)

BlankPrompt ==
    [variant |-> "", instruction_tag_start |-> instructions_tag_start,
     instruction_tag_end |-> instructions_tag_end,
     example_tag_start |-> example_tag_start, example_tag_end |-> example_tag_end,
     fields |-> Unused, foreign_keys |-> Unused, schema_links |-> Unused,
     test_sample_text |-> Unused, sub_questions |-> Unused,
     sql_tag_start |-> Unused, sql_tag_end |-> Unused, sql_dialect |-> Unused,
     sql_query |-> Unused, error_message |-> Unused]

hard_prompt_maker(test_sample_text, database, links, sub_questions, tag_start, tag_end) ==
    [BlankPrompt EXCEPT !.variant = "hard",
        !.fields = find_fields(database),
        !.foreign_keys = find_foreign_keys(database),
        !.schema_links = links, !.test_sample_text = test_sample_text,
        !.sub_questions = sub_questions,
        !.sql_tag_start = tag_start, !.sql_tag_end = tag_end]

medium_prompt_maker(test_sample_text, database, links, tag_start, tag_end) ==
    [BlankPrompt EXCEPT !.variant = "medium",
        !.fields = find_fields(database),
        !.foreign_keys = find_foreign_keys(database),
        !.schema_links = links, !.test_sample_text = test_sample_text,
        !.sql_tag_start = tag_start, !.sql_tag_end = tag_end]

easy_prompt_maker(test_sample_text, database, links, tag_start, tag_end) ==
    [BlankPrompt EXCEPT !.variant = "easy",
        !.fields = find_fields(database),
        !.schema_links = links, !.test_sample_text = test_sample_text,
        !.sql_tag_start = tag_start, !.sql_tag_end = tag_end]

\* the keyword arguments easy_prompt_maker accepts
EasyPromptMakerParams ==
    {"test_sample_text", "database", "schema_links", "sql_tag_start", "sql_tag_end"}

debugger(test_sample_text, database, sql, tag_start, tag_end, dialect) ==
    [BlankPrompt EXCEPT !.variant = "clean",
        !.fields = find_fields(database)
                     \o <<"Foreign_keys = ">> \o find_foreign_keys(database) \o <<"n">>
                     \o <<"Primary_keys = ">> \o find_primary_keys(database),
        !.test_sample_text = test_sample_text, !.sql_query = sql,
        !.sql_tag_start = tag_start, !.sql_tag_end = tag_end,
        !.sql_dialect = dialect]

\* the repair prompt with the statement in the place of the error message
RepairPromptWithoutError(sql_query, error_message, tag_start, tag_end) ==
    [BlankPrompt EXCEPT !.variant = "repair",
        !.sql_query = sql_query, !.error_message = sql_query,
        !.sql_tag_start = tag_start, !.sql_tag_end = tag_end]

\* the prompt of revise_query_with_error
RepairPrompt(sql_query, error_message, tag_start, tag_end) ==
    [BlankPrompt EXCEPT !.variant = "repair",
        !.sql_query = sql_query, !.error_message = error_message,
        !.sql_tag_start = tag_start, !.sql_tag_end = tag_end]

----------------------------------------------------------------------------
(* Completion Client. *)

\* the request body llm_generation sends for the model family in use
LlmBody(model, stop_sequences, word_in_mouth) ==
    IF StartsWith(model, <<"anthropic">>)
    THEN [shape |-> "messages",
          assistant |-> IF word_in_mouth \in {None, <<>>} THEN None ELSE word_in_mouth,
          stop_sequences |-> stop_sequences]
    ELSE [shape |-> "inputText", assistant |-> None, stop_sequences |-> <<>>]

\* the request body debugger_generation sends
DebuggerBody(model) ==
    IF StartsWith(model, <<"anthropic">>)
    THEN [shape |-> "messages", assistant |-> None,
          stop_sequences |-> <<example_tag_end>>]
    ELSE [shape |-> "inputText", assistant |-> None, stop_sequences |-> <<>>]

\* one call of llm_generation: the record of the call and what it returns
llm_generation(prompt, stop_sequences, word_in_mouth, out) ==
    /\ calls' = Append(calls,
          [fn |-> "llm_generation", prompt |-> prompt,
           stop_sequences |-> stop_sequences, word_in_mouth |-> word_in_mouth,
           body |-> LlmBody(model_id, stop_sequences, word_in_mouth),
           failed |-> (out = None)])
    /\ llm_out' = out

\* one call of debugger_generation
debugger_generation(prompt, out) ==
    /\ calls' = Append(calls,
          [fn |-> "debugger_generation", prompt |-> prompt,
           stop_sequences |-> <<>>, word_in_mouth |-> None,
           body |-> DebuggerBody(model_id),
           failed |-> (out = None)])
    /\ llm_out' = out

----------------------------------------------------------------------------
(* The parts of the state a call does not touch, at their values after       *)
(* construction.                                                           *)

TagIdle == response = None /\ name = "" /\ greedy = TRUE /\ tag_ret = None
FindIdle == inspector = None /\ find_db = None /\ find_ret = None
TokenIdle ==
    /\ token_summary = [input_tokens |-> 0, output_tokens |-> 0]
    /\ reported = [input_tokens |-> 0, output_tokens |-> 0]
FenceIdle == fence_text = None /\ fence_ret = None
ConnIdle == db_connection = None /\ db_params = None /\ established = <<>>

----------------------------------------------------------------------------
(* get_sql. *)

\* the keyword arguments the EASY branch passes to easy_prompt_maker
EasyCallKwargs ==
    {"test_sample_text", "database", "schema_links", "sql_tag_start", "sql_tag_end",
     "word_in_mouth"}

\* classification == 'EASY'
IsEasy(c) == c = EASY
\* classification == 'NON-NESTED'
IsNonNested(c) == c = NON_NESTED
\* a prefix test in place of the equality
IsNestedPrefix(c) == StartsWith(c, NESTED)

\* classification == 'NESTED'
IsNested(c) == c = NESTED

\* the absent marker tested against 0 instead of -1
HasSubQuestionsOffByOne(c) == Find(c, SubQuestionFind, 1) # 1
\* classification.find('questions = [') != -1
HasSubQuestions(c) == Find(c, SubQuestionFind, 1) # 0

\* the except clause of the first try block: the error is logged, SQL = "SELECT"
GenerationCaught(kind) ==
    /\ SQL' = SELECT
    /\ caught' = Append(caught, kind)
    /\ UNCHANGED <<calls, llm_out>>

\* the EASY branch: the call of easy_prompt_maker is checked against its
\* parameters before its body runs; llm_generation gets no word_in_mouth
GetSqlEasy ==
    /\ UNCHANGED <<tagVars, findVars, tokenVars, fenceVars, connVars>>
    /\ pc = "get_sql"
    /\ IsEasy(classification)
    /\ \E out \in GenOutcomes :
          IF EasyCallKwargs \subseteq EasyPromptMakerParams
          THEN \E introOK \in BOOLEAN :
                  IF introOK
                  THEN /\ llm_generation(
                             easy_prompt_maker(question, db_name, schema_links,
                                               sql_tag_start, sql_tag_end),
                             <<example_tag_end>>, None, out)
                       /\ SQL' = out
                       /\ UNCHANGED caught
                  ELSE GenerationCaught("SQLAlchemyError")
          ELSE GenerationCaught("TypeError")
    /\ pc' = "generated"
    /\ UNCHANGED <<model_id, sql_dialect, question, db_name, schema_links,
                   classification, queryVars, ret, exc>>

\* the NON-NESTED branch
GetSqlNonNested ==
    /\ UNCHANGED <<tagVars, findVars, tokenVars, fenceVars, connVars>>
    /\ pc = "get_sql"
    /\ ~IsEasy(classification)
    /\ IsNonNested(classification)
    /\ \E out \in GenOutcomes, introOK \in BOOLEAN :
          IF introOK
          THEN /\ llm_generation(
                     medium_prompt_maker(question, db_name, schema_links,
                                         sql_tag_start, sql_tag_end),
                     <<example_tag_end>>, <<"SQL: ">> \o sql_tag_start, out)
               /\ SQL' = out
               /\ UNCHANGED caught
          ELSE GenerationCaught("SQLAlchemyError")
    /\ pc' = "generated"
    /\ UNCHANGED <<model_id, sql_dialect, question, db_name, schema_links,
                   classification, queryVars, ret, exc>>

\* the NESTED branch, with its fallback to the medium prompt
GetSqlNested ==
    /\ UNCHANGED <<tagVars, findVars, tokenVars, fenceVars, connVars>>
    /\ pc = "get_sql"
    /\ ~IsEasy(classification)
    /\ ~IsNonNested(classification)
    /\ IsNested(classification)
    /\ \E out \in GenOutcomes, introOK \in BOOLEAN :
          IF HasSubQuestions(classification)
          THEN LET parts == Split(classification, SubQuestionOpen)
               IN  IF Len(parts) < 2
                   THEN GenerationCaught("IndexError")
                   ELSE LET sub_questions == Head(Split(parts[2], SubQuestionClose))
                        IN  IF introOK
                            THEN /\ llm_generation(
                                       hard_prompt_maker(question, db_name, schema_links,
                                                         sub_questions,
                                                         sql_tag_start, sql_tag_end),
                                       <<example_tag_end>>,
                                       <<"A: Let's think step by step. dq">> \o question
                                         \o <<"dq can be solved by knowing the answer to the following sub-question dq">>
                                         \o sub_questions
                                         \o <<"dq. The SQL query for the sub-question dq", "n">>,
                                       out)
                                 /\ SQL' = out
                                 /\ UNCHANGED caught
                            ELSE GenerationCaught("SQLAlchemyError")
          ELSE IF introOK
               THEN /\ llm_generation(
                          medium_prompt_maker(question, db_name, schema_links,
                                              sql_tag_start, sql_tag_end),
                          <<example_tag_end>>, <<"SQL: ">> \o sql_tag_start, out)
                    /\ SQL' = out
                    /\ UNCHANGED caught
               ELSE GenerationCaught("SQLAlchemyError")
    /\ pc' = "generated"
    /\ UNCHANGED <<model_id, sql_dialect, question, db_name, schema_links,
                   classification, queryVars, ret, exc>>

\* any other classification: logged, SQL stays None
GetSqlUnknown ==
    /\ UNCHANGED <<tagVars, findVars, tokenVars, fenceVars, connVars>>
    /\ pc = "get_sql"
    /\ ~IsEasy(classification)
    /\ ~IsNonNested(classification)
    /\ ~IsNested(classification)
    /\ pc' = "generated"
    /\ UNCHANGED <<model_id, sql_dialect, question, db_name, schema_links,
                   classification, SQL, caught, calls, llm_out, queryVars, ret, exc>>

\* the slice with index [1] where the text has an opening marker
FirstPassExtractFirstBlock(text) ==
    LET parts == Split(text, <<"T", "q">>)
    IN  Head(Split(IF Len(parts) < 2 THEN parts[1] ELSE parts[2], <<"T">>))

\* SQL.split('```sql')[-1].split('```')[0]
FirstPassExtract(text) == Head(Split(Last(Split(text, <<"T", "q">>)), <<"T">>))

\* the second try block: the slice of the first-pass output
GetSqlExtract ==
    /\ UNCHANGED <<tagVars, findVars, tokenVars, fenceVars, connVars>>
    /\ pc = "generated"
    /\ IF SQL = None
       THEN /\ SQL' = SELECT
            /\ caught' = Append(caught, "AttributeError")
       ELSE /\ SQL' = FirstPassExtract(SQL)
            /\ UNCHANGED caught
    /\ pc' = "extracted"
    /\ UNCHANGED <<model_id, sql_dialect, question, db_name, schema_links,
                   classification, calls, llm_out, queryVars, ret, exc>>

\* the slice without the final strip()
CleanPassExtractUnstripped(debugged_SQL) ==
    LET parts == Split(debugged_SQL, <<"T", "q">>)
    IN  IF Len(parts) < 2 THEN None
        ELSE Head(Split(parts[2], <<"T">>))

\* debugged_SQL.split('```sql')[1].split('```')[0].strip(), or IndexError
CleanPassExtract(debugged_SQL) ==
    LET parts == Split(debugged_SQL, <<"T", "q">>)
    IN  IF Len(parts) < 2 THEN None
        ELSE Strip(Head(Split(parts[2], <<"T">>)))

\* the clean pass and the return
GetSqlClean ==
    /\ UNCHANGED <<tagVars, findVars, tokenVars, fenceVars, connVars>>
    /\ pc = "extracted"
    /\ \E out \in LLMOutcomes, introOK \in BOOLEAN :
          IF ~introOK
          THEN /\ pc' = "raised"
               /\ exc' = <<"SQLAlchemyError">>
               /\ UNCHANGED <<SQL, calls, llm_out, ret>>
          ELSE /\ debugger_generation(
                     debugger(question, db_name, SQL, sql_tag_start, sql_tag_end,
                              sql_dialect), out)
               /\ IF out = None
                  THEN /\ pc' = "raised"
                       /\ exc' = <<"AttributeError">>
                       /\ UNCHANGED <<SQL, ret>>
                  ELSE LET debugged_SQL == ReplaceNewlines(out)
                       IN  IF CleanPassExtract(debugged_SQL) = None
                           THEN /\ pc' = "raised"
                                /\ exc' = <<"IndexError">>
                                /\ UNCHANGED <<SQL, ret>>
                           ELSE /\ SQL' = CleanPassExtract(debugged_SQL)
                                /\ ret' = SQL'
                                /\ pc' = "returned"
                                /\ UNCHANGED exc
    /\ UNCHANGED <<model_id, sql_dialect, question, db_name, schema_links,
                   classification, caught, queryVars>>

InitGetSql ==
    /\ pc = "get_sql"
    /\ model_id \in ModelIds
    /\ sql_dialect \in Dialects
    /\ \E r \in Requests :
          /\ question = r.question
          /\ db_name = r.db_name
          /\ schema_links = r.schema_links
    /\ classification \in Classifications
    /\ SQL = None
    /\ caught = <<>>
    /\ calls = <<>>
    /\ llm_out = None
    /\ sql_string = None
    /\ db_error = None
    /\ revised_sql = None
    /\ executed = <<>>
    /\ ret = None
    /\ exc = NoExc
    /\ TagIdle /\ FindIdle /\ TokenIdle /\ FenceIdle /\ ConnIdle

NextGetSql ==
    \/ GetSqlEasy
    \/ GetSqlNonNested
    \/ GetSqlNested
    \/ GetSqlUnknown
    \/ GetSqlExtract
    \/ GetSqlClean

SpecGetSql == InitGetSql /\ [][NextGetSql]_vars

----------------------------------------------------------------------------
(* query and revise_query_with_error. *)

\* result.all(): the rows the data source returns for a statement
Rows(statement) == <<"rows of">> \o statement

\* f"SQLAlchemy error: {e}"
ErrorString(e) == <<"SQLAlchemy error: ">> \o e

\* db_connection.execute: the statement is logged with its outcome, None for
\* success or the message of the SQLAlchemyError raised
Execute(statement, outcome) ==
    executed' = Append(executed, [sql |-> statement, error |-> outcome])

\* retry_sql.split(sql_tag_start)[1].split(sql_tag_end)[0], or IndexError
ReviseExtract(retry_sql, tag_start, tag_end) ==
    LET parts == Split(retry_sql, tag_start)
    IN  IF Len(parts) < 2 THEN None
        ELSE Head(Split(parts[2], tag_end))

\* a retry loop: a failed revised statement is repaired again
AfterRevisedFailureRetry == "repair"

\* where query goes when the revised statement fails too: it returns
AfterRevisedFailure == "returned"

\* the first execution
QueryExecute ==
    /\ UNCHANGED <<tagVars, findVars, tokenVars, fenceVars, connVars>>
    /\ pc = "query"
    /\ \E outcome \in ErrorMessages \cup {None} :
          /\ Execute(sql_string, outcome)
          /\ IF outcome = None
             THEN /\ ret' = Rows(sql_string)
                  /\ pc' = "returned"
                  /\ UNCHANGED db_error
             ELSE /\ db_error' = outcome
                  /\ pc' = "repair"
                  /\ UNCHANGED ret
    /\ UNCHANGED <<model_id, sql_dialect, getSqlVars, calls, llm_out, sql_string,
                   revised_sql, exc>>

\* revise_query_with_error: one generation on the repair prompt and the slice
QueryRevise ==
    /\ UNCHANGED <<tagVars, findVars, tokenVars, fenceVars, connVars>>
    /\ pc = "repair"
    /\ \E out \in LLMOutcomes :
          /\ llm_generation(
                RepairPrompt(sql_string, db_error, sql_tag_start, sql_tag_end),
                <<>>, None, out)
          /\ IF out = None
             THEN /\ pc' = "raised"
                  /\ exc' = <<"AttributeError">>
                  /\ UNCHANGED revised_sql
             ELSE IF ReviseExtract(out, sql_tag_start, sql_tag_end) = None
             THEN /\ pc' = "raised"
                  /\ exc' = <<"IndexError">>
                  /\ UNCHANGED revised_sql
             ELSE /\ revised_sql' = ReviseExtract(out, sql_tag_start, sql_tag_end)
                  /\ pc' = "reexecute"
                  /\ UNCHANGED exc
    /\ UNCHANGED <<model_id, sql_dialect, getSqlVars, sql_string, db_error,
                   executed, ret>>

\* the execution of the revised statement
QueryReexecute ==
    /\ UNCHANGED <<tagVars, findVars, tokenVars, fenceVars, connVars>>
    /\ pc = "reexecute"
    /\ \E outcome \in ErrorMessages \cup {None} :
          /\ Execute(revised_sql, outcome)
          /\ IF outcome = None
             THEN /\ ret' = Rows(revised_sql)
                  /\ pc' = "returned"
                  /\ UNCHANGED db_error
             ELSE /\ ret' = ErrorString(outcome)
                  /\ pc' = AfterRevisedFailure
                  /\ db_error' = IF AfterRevisedFailure = "returned"
                                 THEN db_error ELSE outcome
    /\ UNCHANGED <<model_id, sql_dialect, getSqlVars, calls, llm_out, sql_string,
                   revised_sql, exc>>

InitQuery ==
    /\ pc = "query"
    /\ model_id \in ModelIds
    /\ sql_dialect \in Dialects
    /\ question = None
    /\ db_name = None
    /\ schema_links = None
    /\ classification = None
    /\ SQL = None
    /\ caught = <<>>
    /\ calls = <<>>
    /\ llm_out = None
    /\ sql_string \in Statements
    /\ db_error = None
    /\ revised_sql = None
    /\ executed = <<>>
    /\ ret = None
    /\ exc = NoExc
    /\ TagIdle /\ FindIdle /\ TokenIdle /\ FenceIdle /\ ConnIdle

NextQuery ==
    \/ QueryExecute
    \/ QueryRevise
    \/ QueryReexecute

SpecQuery == InitQuery /\ [][NextQuery]_vars

----------------------------------------------------------------------------
(* extract_tag (src/utilities.py).  A text is a sequence of tokens: a tag  *)
(* is one token, "<a>" or "</a>", and every other token is one character.  *)

\* longest text handed to extract_tag
MaxTag == 5

TagNames == {"a", "b"}
TagAlphabet == {"<a>", "</a>", "<b>", "x", "n"}
\* the text of the docstring, "foo <a>baz</a> bar", and a text without tags
DocExample ==
    <<"x", "x", "x", "s", "<a>", "x", "x", "x", "</a>", "s", "x", "x", "x">>
NoTagsExample == <<"x", "x", "s", "x", "x", "x", "x", "s", "x", "x", "x", "x">>
TagTexts == SeqsUpTo(TagAlphabet, MaxTag) \cup {DocExample, NoTagsExample}

\* f"<{name}>" and f"</{name}>"
OpenTag(nm) == IF nm = "a" THEN "<a>" ELSE "<b>"
CloseTag(nm) == IF nm = "a" THEN "</a>" ELSE "</b>"

\* the number of characters of a token
Width(tok) ==
    IF tok \in {"<a>", "<b>", " = "} THEN 3
    ELSE IF tok \in {"</a>", "</b>"} THEN 4
    ELSE IF tok = "Table " THEN 6
    ELSE IF tok = ", columns = " THEN 12
    ELSE 1

RECURSIVE CharLen(_)
\* len(text), in characters
CharLen(text) == IF text = <<>> THEN 0 ELSE Width(Head(text)) + CharLen(Tail(text))

\* what "." matches under re.DOTALL: any character
DotMatches(tok) == TRUE

\* the quantifiers of the two patterns exchanged
WidestSpanInverted(g) == ~g

\* whether the pattern in use is "(.*)", the widest span, or "(.*?)"
WidestSpan(g) == g

Max(S) == CHOOSE m \in S : \A k \in S : k <= m
Min(S) == CHOOSE m \in S : \A k \in S : m <= k

\* the positions at which the closing tag can end a match that opens at i
ClosingsFrom(text, nm, i) ==
    { j \in (i + 1)..Len(text) :
         /\ text[j] = CloseTag(nm)
         /\ \A k \in (i + 1)..(j - 1) : DotMatches(text[k]) }

\* re.search: the leftmost position at which the pattern matches, with the
\* position of the closing tag its quantifier settles on; <<0, 0>> for no match
Search(text, nm, g) ==
    LET starts == { i \in 1..Len(text) :
                       text[i] = OpenTag(nm) /\ ClosingsFrom(text, nm, i) # {} }
    IN  IF starts = {} THEN <<0, 0>>
        ELSE LET i == Min(starts)
             IN  <<i, IF WidestSpan(g) THEN Max(ClosingsFrom(text, nm, i))
                      ELSE Min(ClosingsFrom(text, nm, i))>>

\* match.end(), the end of the whole match
MatchEndWhole(text, j) == CharLen(SubSeq(text, 1, j))

\* match.end(1), the end of the group, for a closing tag at position j
MatchEndGroup(text, j) == CharLen(SubSeq(text, 1, j - 1))

extract_tag(text, nm, g) ==
    LET m == Search(text, nm, g)
    IN  IF m[1] # 0
        THEN [content |-> Strip(SubSeq(text, m[1] + 1, m[2] - 1)),
              offset |-> MatchEndGroup(text, m[2])]
        ELSE [content |-> <<>>, offset |-> -1]

ExtractTag ==
    /\ pc = "extract_tag"
    /\ tag_ret' = extract_tag(response, name, greedy)
    /\ pc' = "returned"
    /\ UNCHANGED <<model_id, sql_dialect, getSqlVars, queryVars, calls, llm_out,
                   ret, exc, response, name, greedy>>
    /\ UNCHANGED <<findVars, tokenVars, fenceVars, connVars>>

\* the object and the other calls at rest
CoreIdle ==
    /\ model_id \in ModelIds
    /\ sql_dialect = None
    /\ question = None /\ db_name = None /\ schema_links = None
    /\ classification = None /\ SQL = None /\ caught = <<>>
    /\ calls = <<>> /\ llm_out = None
    /\ sql_string = None /\ db_error = None /\ revised_sql = None
    /\ executed = <<>> /\ ret = None /\ exc = NoExc

InitTag ==
    /\ pc = "extract_tag"
    /\ CoreIdle
    /\ response \in TagTexts
    /\ name \in TagNames
    /\ greedy \in BOOLEAN
    /\ tag_ret = None
    /\ FindIdle /\ TokenIdle /\ FenceIdle /\ ConnIdle

NextTag == ExtractTag

SpecTag == InitTag /\ [][NextTag]_vars

----------------------------------------------------------------------------
(* find_foreign_keys, find_fields, find_primary_keys.  The inspector is    *)
(* the catalog of the data source: the tables of each schema, and the      *)
(* schema a reflection call without schema= looks in.  A listing is a text *)
(* of tokens: a name is one character, "[", "]", "," and "." are           *)
(* themselves, "n" is the newline.                                         *)

\* most tables in one schema
MaxTables == 2

\* inspector.get_schema_names()
SchemaNames == <<"information_schema", "db1", "db2">>

TableT == [name |-> "t", columns |-> <<"a", "b">>, pk |-> <<"a">>, fks |-> <<>>]

TableU == [name |-> "u", columns |-> <<"a">>, pk |-> <<>>, fks |-> << [constrained_columns |-> <<"a">>, referred_table |-> "t", referred_columns |-> <<"a">>] >>]

\* a table named like TableU, without columns and keys
TableBare == [name |-> "u", columns |-> <<>>, pk |-> <<>>, fks |-> <<>>]

TableKinds == {TableT, TableU, TableBare}

\* the table lists a schema can hold: distinct names, at most MaxTables
TableLists ==
    { l \in SeqsUpTo(TableKinds, MaxTables) :
         \A i, j \in DOMAIN l : i # j => l[i].name # l[j].name }

Inspectors ==
    { [tables |-> [s \in {"information_schema", "db1", "db2"} |->
                      IF s = "information_schema" THEN li
                      ELSE IF s = "db1" THEN l1 ELSE l2],
       default |-> d] :
         li \in TableLists, l1 \in TableLists, l2 \in TableLists,
         d \in {"db1", "db2"} }

\* db_name: a schema, a name that is no schema, or nothing
DbNames == {"db1", "db2", "nodb", ""}

\* an exception raised by a reflection call
Raised == <<"NoSuchTableError">>

InSeq(x, s) == \E i \in DOMAIN s : s[i] = x

\* output[:-1]
DropLastChar(text) == IF text = <<>> THEN <<>> ELSE SubSeq(text, 1, Len(text) - 1)

\* return output if len(output) > 2 else "[]"
OutputOrEmpty(output) == IF CharLen(output) > 2 THEN output ELSE <<"[", "]">>

\* inspector.get_table_names(schema=schema)
get_table_names(insp, schema) == insp.tables[schema]

\* inspector.get_foreign_keys(table_name): no schema is given, so the table
\* is looked up in the default schema; a table that is not there reflects to
\* no keys where the dialect does not raise
get_foreign_keys(insp, table_name) ==
    LET found == SelectSeq(insp.tables[insp.default], LAMBDA t : t.name = table_name)
    IN  IF Len(found) > 0 THEN Head(found).fks ELSE <<>>

\* a table that is not in the default schema raises NoSuchTableError where
\* the dialect raises on a missing table
FkRaises(insp, tables, missing) ==
    /\ missing = "raise"
    /\ \E i \in DOMAIN tables :
          \A j \in DOMAIN insp.tables[insp.default] :
             insp.tables[insp.default][j].name # tables[i].name

\* the schemas a find_ function inspects: db_name alone when it is given and
\* known, else every schema but information_schema
InspectedSchemas(db) ==
    IF db # "" /\ InSeq(db, SchemaNames)
    THEN <<db>>
    ELSE SelectSeq(SchemaNames, LAMBDA s : s # "information_schema")

RECURSIVE TablesOf(_, _)
\* the tables of the schemas, in the order the loops visit them
TablesOf(insp, schemas) ==
    IF schemas = <<>> THEN <<>>
    ELSE get_table_names(insp, Head(schemas)) \o TablesOf(insp, Tail(schemas))

RECURSIVE FkEntries(_, _)
\* f"{table_name}.{constrained_columns[0]} = {referred_table}.{referred_columns[0]},"
FkEntries(table_name, fks) ==
    IF Len(fks) = 0 THEN <<>>
    ELSE LET fk == Head(fks)
         IN  <<table_name, ".", fk.constrained_columns[1], " = ",
               fk.referred_table, ".", fk.referred_columns[1], ",">>
             \o FkEntries(table_name, Tail(fks))

RECURSIVE FkOutput(_, _)
\* the loops of find_foreign_keys over the tables
FkOutput(insp, tables) ==
    IF Len(tables) = 0 THEN <<>>
    ELSE FkEntries(Head(tables).name, get_foreign_keys(insp, Head(tables).name))
         \o FkOutput(insp, Tail(tables))

find_foreign_keys_text(insp, db, missing) ==
    LET tables == TablesOf(insp, InspectedSchemas(db))
    IN  IF FkRaises(insp, tables, missing) THEN Raised
        ELSE OutputOrEmpty(DropLastChar(<<"[">> \o FkOutput(insp, tables)) \o <<"]">>)

RECURSIVE ColumnEntries(_)
\* f"{column['name']},"
ColumnEntries(columns) ==
    IF columns = <<>> THEN <<>>
    ELSE <<Head(columns), ",">> \o ColumnEntries(Tail(columns))

RECURSIVE FieldsOutput(_)
\* the loop of find_fields over the tables
FieldsOutput(tables) ==
    IF Len(tables) = 0 THEN <<>>
    ELSE DropLastChar(<<"Table ", Head(tables).name, ", columns = ", "[">>
                        \o ColumnEntries(Head(tables).columns))
         \o <<"]", "n">> \o FieldsOutput(Tail(tables))

find_fields_text(insp, db) ==
    OutputOrEmpty(FieldsOutput(TablesOf(insp, InspectedSchemas(db))))

\* iterating inspector.get_pk_constraint(...): the constraint is one dict, so
\* the loop variable runs over its keys, which are strings
PkConstraintItems(table) ==
    << [type |-> "str", value |-> "constrained_columns"],
       [type |-> "str", value |-> "name"] >>

RECURSIVE PkEntries(_, _)
\* if type(pk) == dict and 'constrained_columns' in pk.keys(): append
PkEntries(table_name, items) ==
    IF Len(items) = 0 THEN <<>>
    ELSE (IF Head(items).type = "dict"
          THEN <<table_name, ".", Head(items).value[1], ",">>
          ELSE <<>>)
         \o PkEntries(table_name, Tail(items))

RECURSIVE PkOutput(_)
\* the loops of find_primary_keys over the tables
PkOutput(tables) ==
    IF Len(tables) = 0 THEN <<>>
    ELSE PkEntries(Head(tables).name, PkConstraintItems(Head(tables)))
         \o PkOutput(Tail(tables))

find_primary_keys_text(insp, db) ==
    OutputOrEmpty(DropLastChar(PkOutput(TablesOf(insp, InspectedSchemas(db))))
                    \o <<"]", "n">>)

\* the three listings of one database
FindAll ==
    /\ pc = "find"
    /\ \E missing \in {"raise", "empty"} :
          find_ret' = [fields |-> find_fields_text(inspector, find_db),
                       foreign_keys |-> find_foreign_keys_text(inspector, find_db, missing),
                       primary_keys |-> find_primary_keys_text(inspector, find_db)]
    /\ pc' = "returned"
    /\ UNCHANGED <<model_id, sql_dialect, getSqlVars, queryVars, calls, llm_out,
                   ret, exc, inspector, find_db>>
    /\ UNCHANGED <<tagVars, tokenVars, fenceVars, connVars>>

InitFind ==
    /\ pc = "find"
    /\ CoreIdle
    /\ inspector \in Inspectors
    /\ find_db \in DbNames
    /\ find_ret = None
    /\ TagIdle /\ TokenIdle /\ FenceIdle /\ ConnIdle

NextFind == FindAll

SpecFind == InitFind /\ [][NextFind]_vars

----------------------------------------------------------------------------
(* The token calculator: token_summary, the generation calls and           *)
(* reset_token_calculator.  reported is the sum of the token costs the     *)
(* backend reported in its responses since the last reset.                 *)

\* most generation calls in one behaviour
MaxCalls == 3

\* what a generation call can get back: a text, or None after a ClientError
TokenOutcomes == {<<"x">>, None}

\* the input and output token costs a response body can report
Costs == {1, 2}

ZeroTokens == [input_tokens |-> 0, output_tokens |-> 0]

\* the usage of one response added to the reported costs; a call that ends
\* in a ClientError has no response
AddReported(out, cost_in, cost_out) ==
    IF out = None THEN reported
    ELSE [input_tokens |-> reported.input_tokens + cost_in,
          output_tokens |-> reported.output_tokens + cost_out]

\* llm_generation reads the text of the response and nothing else
TokenLlmGeneration ==
    /\ pc = "tokens"
    /\ Len(calls) < MaxCalls
    /\ \E out \in TokenOutcomes, cost_in \in Costs, cost_out \in Costs :
          /\ llm_generation(BlankPrompt, <<>>, None, out)
          /\ reported' = AddReported(out, cost_in, cost_out)
    /\ UNCHANGED token_summary
    /\ UNCHANGED <<pc, model_id, sql_dialect, getSqlVars, queryVars, ret, exc>>
    /\ UNCHANGED <<tagVars, findVars, fenceVars, connVars>>

\* debugger_generation reads the text of the response and nothing else
TokenDebuggerGeneration ==
    /\ pc = "tokens"
    /\ Len(calls) < MaxCalls
    /\ \E out \in TokenOutcomes, cost_in \in Costs, cost_out \in Costs :
          /\ debugger_generation(BlankPrompt, out)
          /\ reported' = AddReported(out, cost_in, cost_out)
    /\ UNCHANGED token_summary
    /\ UNCHANGED <<pc, model_id, sql_dialect, getSqlVars, queryVars, ret, exc>>
    /\ UNCHANGED <<tagVars, findVars, fenceVars, connVars>>

reset_token_calculator ==
    /\ pc = "tokens"
    /\ token_summary' = ZeroTokens
    /\ reported' = ZeroTokens
    /\ UNCHANGED coreVars
    /\ UNCHANGED <<tagVars, findVars, fenceVars, connVars>>

InitTokens ==
    /\ pc = "tokens"
    /\ CoreIdle
    /\ token_summary = ZeroTokens
    /\ reported = ZeroTokens
    /\ TagIdle /\ FindIdle /\ FenceIdle /\ ConnIdle

NextTokens == TokenLlmGeneration \/ TokenDebuggerGeneration \/ reset_token_calculator

SpecTokens == InitTokens /\ [][NextTokens]_vars

----------------------------------------------------------------------------
(* The three slices of a fenced statement, applied to one model output:    *)
(* the first pass and the clean pass of get_sql, and                       *)
(* revise_query_with_error.  A slice that raises IndexError yields None.   *)

\* longest model output
MaxFence == 5

FenceTexts == SeqsUpTo(Alphabet, MaxFence)

FenceExtract ==
    /\ pc = "fence"
    /\ fence_ret' =
          [first_pass |-> FirstPassExtract(fence_text),
           clean |-> CleanPassExtract(ReplaceNewlines(fence_text)),
           revise |-> ReviseExtract(fence_text, sql_tag_start, sql_tag_end)]
    /\ pc' = "sliced"
    /\ UNCHANGED <<model_id, sql_dialect, getSqlVars, queryVars, calls, llm_out,
                   ret, exc, fence_text>>
    /\ UNCHANGED <<tagVars, findVars, tokenVars, connVars>>

InitFence ==
    /\ pc = "fence"
    /\ CoreIdle
    /\ fence_text \in FenceTexts
    /\ fence_ret = None
    /\ TagIdle /\ FindIdle /\ TokenIdle /\ ConnIdle

NextFence == FenceExtract

SpecFence == InitFence /\ [][NextFence]_vars

----------------------------------------------------------------------------
(* db_connect and athena_connect.  db_connection is None or the connection *)
(* object, written as the dialect of the engine it is open on; db_params   *)
(* is self.db_engine; established is the record of the connect calls made. *)

\* most connect calls in one behaviour
MaxConnects == 3

\* the db_engine argument of db_connect
Engines == {<<"postgresql">>, <<"mysql">>}

\* the dialect athena_connect sets
Presto == <<"presto">>

\* the connection object engine.connect() returns
Connection(dialect) == <<"connection">> \o dialect

\* db_connect: the fields, sql_dialect among them, are assigned before the
\* try block; the connection only when connect() succeeds
DbConnect ==
    /\ pc = "connect"
    /\ Len(established) < MaxConnects
    /\ \E db_engine \in Engines, ok \in BOOLEAN :
          /\ db_params' = db_engine
          /\ sql_dialect' = db_engine
          /\ db_connection' = IF ok THEN Connection(db_engine) ELSE db_connection
          /\ established' = Append(established,
                [fn |-> "db_connect", dialect |-> db_engine, ok |-> ok])
    /\ UNCHANGED <<pc, model_id, getSqlVars, queryVars, calls, llm_out, ret, exc>>
    /\ UNCHANGED <<tagVars, findVars, tokenVars, fenceVars>>

\* athena_connect: connection and dialect are assigned inside the try block,
\* after connect() succeeded
AthenaConnect ==
    /\ pc = "connect"
    /\ Len(established) < MaxConnects
    /\ \E ok \in BOOLEAN :
          /\ IF ok
             THEN /\ db_connection' = Connection(Presto)
                  /\ sql_dialect' = Presto
             ELSE UNCHANGED <<db_connection, sql_dialect>>
          /\ established' = Append(established,
                [fn |-> "athena_connect", dialect |-> Presto, ok |-> ok])
    /\ UNCHANGED db_params
    /\ UNCHANGED <<pc, model_id, getSqlVars, queryVars, calls, llm_out, ret, exc>>
    /\ UNCHANGED <<tagVars, findVars, tokenVars, fenceVars>>

InitConnect ==
    /\ pc = "connect"
    /\ CoreIdle
    /\ ConnIdle
    /\ TagIdle /\ FindIdle /\ TokenIdle /\ FenceIdle

NextConnect == DbConnect \/ AthenaConnect

SpecConnect == InitConnect /\ [][NextConnect]_vars

----------------------------------------------------------------------------
(* Vocabulary of the properties. *)

IsLlmGeneration(c) == c.fn = "llm_generation"
IsDebuggerGeneration(c) == c.fn = "debugger_generation"
FirstPassCalls == SelectSeq(calls, IsLlmGeneration)
CleanCalls == SelectSeq(calls, IsDebuggerGeneration)

Finished == pc \in {"returned", "raised"}
Dispatched == pc \in {"generated", "extracted", "returned", "raised"}

\* no metadata query of the Schema Introspector failed during the call
NoIntrospectionError ==
    /\ exc # <<"SQLAlchemyError">>
    /\ \A i \in DOMAIN caught : caught[i] # "SQLAlchemyError"

\* the text after the first occurrence of open, up to the first occurrence of
\* close that follows it (to the end of the text when there is none)
HasOpen(text, open) == Find(text, open, 1) # 0
HasCloseAfterOpen(text, open, close) ==
    /\ HasOpen(text, open)
    /\ Find(text, close, Find(text, open, 1) + Len(open)) # 0
Between(text, open, close) ==
    LET i == Find(text, open, 1) + Len(open)
        j == Find(text, close, i)
    IN  SubSeq(text, i, IF j = 0 THEN Len(text) ELSE j - 1)

----------------------------------------------------------------------------
(* Properties of get_sql, checked under SpecGetSql. *)

\* C1: for every classification, when every Completion Client invocation made
\* during get_sql fails with a ClientError (and no metadata query fails),
\* get_sql does not raise and returns the sentinel "SELECT".
C1_FailingClientReturnsSelect ==
    ( /\ Finished
      /\ calls # <<>>
      /\ \A i \in DOMAIN calls : calls[i].failed
      /\ NoIntrospectionError )
    => (pc = "returned" /\ ret = SELECT)

\* C5: with classification EASY the easy variant is rendered and the
\* Completion Client is invoked on it with the assistant prefix "SQL: ```sql"
\* and the closing example tag as stop sequence, and the first-pass candidate
\* is the output of that generation.
C5_EasyGeneratesPrimed ==
    (Dispatched /\ classification = EASY /\ NoIntrospectionError)
    => /\ Len(FirstPassCalls) = 1
       /\ FirstPassCalls[1].prompt.variant = "easy"
       /\ FirstPassCalls[1].word_in_mouth = <<"SQL: ">> \o sql_tag_start
       /\ FirstPassCalls[1].stop_sequences = <<example_tag_end>>
       /\ (pc = "generated" => SQL = llm_out)

\* C6: a classification NESTED that carries a well-formed sub-question marker
\* selects the hard variant, with sub_questions the text between
\* 'questions = ["' and '"]'.
C6_NestedMarkerSelectsHard ==
    ( /\ Dispatched
      /\ StartsWith(classification, NESTED)
      /\ HasCloseAfterOpen(classification, SubQuestionOpen, SubQuestionClose)
      /\ NoIntrospectionError )
    => /\ Len(FirstPassCalls) = 1
       /\ FirstPassCalls[1].prompt.variant = "hard"
       /\ FirstPassCalls[1].prompt.sub_questions =
             Between(classification, SubQuestionOpen, SubQuestionClose)

\* what the Completion Client receives for a NON-NESTED question
MediumRequestSent(c) ==
    /\ c.prompt.variant = "medium"
    /\ c.prompt.test_sample_text = question
    /\ c.prompt.schema_links = schema_links
    /\ c.prompt.fields = find_fields(db_name)
    /\ c.prompt.foreign_keys = find_foreign_keys(db_name)
    /\ c.prompt.sub_questions = Unused
    /\ c.prompt.sql_tag_start = <<"T", "q">>
    /\ c.prompt.sql_tag_end = <<"T">>
    /\ c.word_in_mouth = <<"SQL: ", "T", "q">>
    /\ c.stop_sequences = << <<"</example>">> >>

\* C7: get_sql on NESTED without the sub-question marker behaves as on
\* NON-NESTED: for either classification the first pass either stops at a
\* failed metadata query, or makes one generation call with the medium
\* prompt of the same question, database and schema links, the same
\* assistant prefix and the same stop sequences.
C7_NestedWithoutMarkerIsNonNested ==
    (Dispatched /\ classification \in {NESTED, NON_NESTED})
    => \/ /\ FirstPassCalls = <<>>
          /\ caught # <<>>
          /\ caught[1] = "SQLAlchemyError"
       \/ /\ Len(FirstPassCalls) = 1
          /\ calls[1] = FirstPassCalls[1]
          /\ MediumRequestSent(calls[1])
          /\ (pc = "generated" => SQL = llm_out /\ caught = <<>>)

C7_Witness ==
    /\ pc = "returned"
    /\ classification = NESTED
    /\ Len(FirstPassCalls) = 1
    /\ FirstPassCalls[1].prompt.variant = "medium"

\* C8: for a classification other than EASY, NON-NESTED and NESTED, get_sql
\* makes no first-pass generation call and hands the sentinel "SELECT" to the
\* clean pass.
C8_UnknownClassificationYieldsSelect ==
    (Dispatched /\ classification \notin {EASY, NON_NESTED, NESTED})
    => /\ FirstPassCalls = <<>>
       /\ (pc = "extracted" => SQL = SELECT)
       /\ \A i \in DOMAIN calls : calls[i].prompt.sql_query = SELECT

C8_Witness ==
    /\ pc = "returned"
    /\ StartsWith(classification, NESTED)
    /\ classification # NESTED
    /\ Len(calls) = 1
    /\ calls[1].prompt.variant = "clean"
    /\ calls[1].prompt.sql_query = SELECT

\* C9: a get_sql call that returns has run the clean pass exactly once, as
\* its last generation, on the candidate left by the first pass, and returns
\* the text of the clean generation between the first ```sql and the next ```,
\* newlines turned into spaces and trimmed.
C9_ReturnIsCleanPassOutput ==
    (pc = "returned")
    => /\ Len(CleanCalls) = 1
       /\ calls[Len(calls)] = CleanCalls[1]
       /\ HasOpen(llm_out, sql_tag_start)
       /\ ret = Strip(ReplaceNewlines(Between(llm_out, sql_tag_start, sql_tag_end)))
       /\ ret = SQL

C9_Witness ==
    /\ pc = "returned"
    /\ Len(FirstPassCalls) = 1
    /\ CleanCalls[1].prompt.sql_query # ret
    /\ \E i \in DOMAIN llm_out : llm_out[i] = "n"
    /\ ret # <<>>

\* C10: when the first-pass generation output contains no SQL fence marker,
\* the extraction step hands the sentinel "SELECT" to the clean pass.
C10_MissingFenceYieldsSelect ==
    ( /\ pc = "extracted"
      /\ Len(FirstPassCalls) = 1
      /\ llm_out # None
      /\ Find(llm_out, sql_tag_end, 1) = 0 )
    => SQL = SELECT

\* C11: an error of a metadata query made while get_sql builds a prompt
\* propagates to the caller and aborts the call: get_sql raises it, returns
\* no SQL, and makes no generation call after it.
C11_IntrospectionErrorAborts ==
    (Finished /\ ~NoIntrospectionError)
    => /\ pc = "raised"
       /\ exc = <<"SQLAlchemyError">>
       /\ ((\E i \in DOMAIN caught : caught[i] = "SQLAlchemyError") => calls = <<>>)

----------------------------------------------------------------------------
(* Properties of query, checked under SpecQuery. *)

\* C2: a call of query has at most one repair cycle: at most two executions
\* and one generation; the generation only after a failed first execution,
\* the second execution only after the generation, and nothing after a
\* failed second execution.
C2_AtMostOneRepairCycle ==
    /\ Len(executed) <= 2
    /\ Len(calls) <= 1
    /\ (calls # <<>> => Len(executed) >= 1 /\ executed[1].error # None)
    /\ (Len(executed) = 2 => Len(calls) = 1)
    /\ (Len(executed) = 2 /\ executed[2].error # None => pc = "returned")

C2_Witness ==
    /\ Len(executed) = 2
    /\ executed[2].error # None
    /\ Len(calls) = 1
    /\ pc = "returned"

\* C3: query never raises: whatever the data source and the Completion Client
\* do, it returns the rows or a formatted error string.
C3_QueryNeverRaises ==
    Finished
    => /\ pc = "returned"
       /\ \/ ret = Rows(executed[Len(executed)].sql)
          \/ \E e \in ErrorMessages : ret = ErrorString(e)

\* C4: when the first execution fails, the Completion Client returns a fenced
\* corrected statement and the second execution succeeds, query returns the
\* rows of the corrected statement, and the repair prompt holds the failing
\* statement and the message of the first error.
C4_RepairReturnsCorrectedRows ==
    ( /\ pc = "returned"
      /\ Len(executed) = 2
      /\ executed[2].error = None
      /\ HasCloseAfterOpen(llm_out, sql_tag_start, sql_tag_end) )
    => /\ executed[2].sql = Between(llm_out, sql_tag_start, sql_tag_end)
       /\ ret = Rows(Between(llm_out, sql_tag_start, sql_tag_end))
       /\ executed[1].sql = sql_string
       /\ Len(calls) = 1
       /\ calls[1].prompt.variant = "repair"
       /\ calls[1].prompt.sql_query = sql_string
       /\ calls[1].prompt.error_message = executed[1].error

C4_Witness ==
    /\ pc = "returned"
    /\ Len(executed) = 2
    /\ executed[1].error = <<"error2">>
    /\ executed[2].error = None
    /\ HasCloseAfterOpen(llm_out, sql_tag_start, sql_tag_end)
    /\ ret = Rows(<<"x">>)

----------------------------------------------------------------------------
(* Properties of extract_tag, checked under SpecTag. *)

OpeningTags == { i \in DOMAIN response : response[i] = OpenTag(name) }
\* the closing tags that follow the first opening tag
ClosingTagsAfterOpen ==
    { j \in DOMAIN response : response[j] = CloseTag(name) /\ j > Min(OpeningTags) }
TagFound == OpeningTags # {} /\ ClosingTagsAfterOpen # {}
\* the closing tag the mode selects: the last one, or the first one
SelectedClosing ==
    IF greedy THEN Max(ClosingTagsAfterOpen) ELSE Min(ClosingTagsAfterOpen)

----------------------------------------------------------------------------
(* Properties of the find_ functions, checked under SpecFind. *)

\* the tables of the schemas a call with find_db inspects
InspectedTables ==
    IF find_db \in {"db1", "db2"}
    THEN inspector.tables[find_db]
    ELSE inspector.tables["db1"] \o inspector.tables["db2"]

\* C14: each of find_foreign_keys, find_fields and find_primary_keys returns
\* "[]" exactly when the schemas it inspects hold no tables, or no keys of
\* its kind.
C14_EmptyListingIffNothingFound ==
    (pc = "returned")
    => /\ (find_ret.fields = <<"[", "]">>) <=> (Len(InspectedTables) = 0)
       /\ (find_ret.primary_keys = <<"[", "]">>)
             <=> (\A i \in DOMAIN InspectedTables : Len(InspectedTables[i].pk) = 0)
       /\ (find_ret.foreign_keys = <<"[", "]">>)
             <=> (\A i \in DOMAIN InspectedTables : Len(InspectedTables[i].fks) = 0)

----------------------------------------------------------------------------
(* Properties of the token calculator, checked under SpecTokens. *)

\* C15: after any sequence of generation calls and resets, input_tokens and
\* output_tokens are the sums of the costs the backend reported for the
\* generation calls since the last reset, and both are zero after a reset.
C15_CountersSumReportedCosts ==
    (pc = "tokens")
    => /\ token_summary.input_tokens = reported.input_tokens
       /\ token_summary.output_tokens = reported.output_tokens

----------------------------------------------------------------------------
(* Properties of the fence slices, checked under SpecFence. *)

RECURSIVE FindLast(_, _, _)
\* the last position at or before i where sub occurs in s; 0 when there is none
FindLast(s, sub, i) ==
    IF i < 1 THEN 0
    ELSE IF i + Len(sub) - 1 <= Len(s) /\ SubSeq(s, i, i + Len(sub) - 1) = sub THEN i
    ELSE FindLast(s, sub, i - 1)

\* the text after the last occurrence of open, up to the first occurrence of
\* close that follows it (to the end of the text when there is none)
BetweenLast(text, open, close) ==
    LET i == FindLast(text, open, Len(text)) + Len(open)
        j == Find(text, close, i)
    IN  SubSeq(text, i, IF j = 0 THEN Len(text) ELSE j - 1)

\* the number of opening markers of the text
OpeningMarkers(text) == Len(Split(text, sql_tag_start)) - 1

----------------------------------------------------------------------------
(* Properties of the connect calls, checked under SpecConnect. *)

\* the connect calls that succeeded, in order
Succeeded == SelectSeq(established, LAMBDA c : c.ok)

\* C17: after any sequence of db_connect and athena_connect calls, whenever
\* db_connection is set, sql_dialect is the dialect of the call that
\* established the connection; a call whose connection attempt fails changes
\* neither, so both are as the last successful call left them (None when no
\* call succeeded).
C17_DialectFollowsConnection ==
    (pc = "connect")
    => IF Succeeded = <<>>
       THEN db_connection = None /\ sql_dialect = None
       ELSE /\ db_connection = Connection(Last(Succeeded).dialect)
            /\ sql_dialect = Last(Succeeded).dialect

====
